---- MODULE Spec2Model ----
(***************************************************************************)
(* Model of fix-uri-imports.py: a batch rewriter that reads every regular  *)
(* file matched by a glob, applies three textual rules (fix_file) and      *)
(* writes the file back when its content changed.                          *)
(*                                                                         *)
(* A file content is a sequence of lexemes.  Each lexeme is the exact text *)
(* the rules look for (or one character of other text), so the literal     *)
(* tests, str.replace and the two re.sub calls are computed on the text    *)
(* the way Python computes them, lexeme by lexeme.                         *)
(***************************************************************************)
EXTENDS Integers, Sequences, FiniteSets, TLC

VARIABLES
    \* the run of the script (specification Spec)
    isfile,     \* per glob result, in glob order: os.path.isfile(filepath)
    disk,       \* per glob result: the text stored at that path
    disk0,      \* the disk as it was when the script started
    linesep,    \* os.linesep of the platform, what "\n" is written as
    pc,         \* where the script is
    idx,        \* number of glob results the for loop has taken
    content,    \* fix_file's local `content`
    original,   \* fix_file's local `original`
    console,    \* lines printed so far
    opened,     \* every open() call so far, <<mode, path>>
    \* one rule applied to one text (specification SpecRules)
    input,      \* the text a rule or fix_file is applied to
    output,     \* the text it produces
    applied,    \* which one was applied
    reported    \* whether fix_file took the `content != original` branch

vars == <<isfile, disk, disk0, linesep, pc, idx, content, original, console,
          opened, input, output, applied, reported>>
runVars  == <<isfile, disk, disk0, linesep, pc, idx, content, original, console,
              opened>>
ruleVars == <<input, output, applied, reported>>

\* ---------------------------------------------------------------- lexemes
URI_IMPORT  == "import { URI } from 'vscode-uri'"
PATH_IMPORT == "import * as path from 'path'"
SEMI        == ";"
NL          == "\n"
CR          == "\r"
PATH_JOIN   == "path.join("
URI_PARSE   == "URI.parse("
URI_FILE    == "URI.file("
URI_JOIN    == "URI.joinPath("
RPAREN      == ")"
COMMA       == ","
FSPATH      == ".fsPath"
FIXME       == "\"FIXME\""
ANY_CHAR    == "x"

\* the text re.sub puts in place of a URI.joinPath(...) call: URI.file("FIXME")
PLACEHOLDER == <<URI_FILE, FIXME, RPAREN>>

\* ---------------------------------------------------------------- bounds
MaxLenAll == 2
MaxFrag   == 4
MaxFiles  == 3

\* ------------------------------------------------------- string primitives
\* Python: pat in c
Contains(c, pat) ==
    \E i \in 1..(Len(c) - Len(pat) + 1) : SubSeq(c, i, i + Len(pat) - 1) = pat

\* Python: c.replace(old, new), every non-overlapping occurrence from the left
RECURSIVE ReplaceFrom(_, _, _, _)
ReplaceFrom(c, old, new, i) ==
    IF i > Len(c) THEN <<>>
    ELSE IF i + Len(old) - 1 <= Len(c) /\ SubSeq(c, i, i + Len(old) - 1) = old
         THEN new \o ReplaceFrom(c, old, new, i + Len(old))
         ELSE <<c[i]>> \o ReplaceFrom(c, old, new, i + 1)

StrReplace(c, old, new) == ReplaceFrom(c, old, new, 1)

\* index of the first ")" at or after i, 0 when there is none
RECURSIVE FirstRParen(_, _)
FirstRParen(c, i) ==
    IF i > Len(c) THEN 0
    ELSE IF c[i] = RPAREN THEN i
    ELSE FirstRParen(c, i + 1)

\* ------------------------------------------------------------------ rule 1
Rule1Fires(c) == Contains(c, <<URI_IMPORT>>) /\ ~Contains(c, <<PATH_IMPORT>>)

Rule1(c) ==
    IF Rule1Fires(c)
    THEN StrReplace(c, <<URI_IMPORT, SEMI>>,
                       <<URI_IMPORT, SEMI, NL, PATH_IMPORT, SEMI>>)
    ELSE c

\* ------------------------------------------------------------------ rule 2
\* path\.join\((URI\.(?:parse|file)\([^)]+\)), tried at position i: the index
\* of the "," that ends the match, 0 when the pattern does not match at i.
\* mutants of Match2End: the (?:parse|file) alternative reduced to parse; [^)]*
\* in place of [^)]+
Match2EndParseOnly(c, i) ==
    IF i + 1 <= Len(c) /\ c[i] = PATH_JOIN /\ c[i + 1] = URI_PARSE
    THEN LET p == FirstRParen(c, i + 2)
         IN  IF p > i + 2 /\ p + 1 <= Len(c) /\ c[p + 1] = COMMA
             THEN p + 1 ELSE 0
    ELSE 0

Match2EndEmptyArg(c, i) ==
    IF i + 1 <= Len(c) /\ c[i] = PATH_JOIN /\ c[i + 1] \in {URI_PARSE, URI_FILE}
    THEN LET p == FirstRParen(c, i + 2)
         IN  IF p >= i + 2 /\ p + 1 <= Len(c) /\ c[p + 1] = COMMA
             THEN p + 1 ELSE 0
    ELSE 0

Match2End(c, i) ==
    IF i + 1 <= Len(c) /\ c[i] = PATH_JOIN /\ c[i + 1] \in {URI_PARSE, URI_FILE}
    THEN LET p == FirstRParen(c, i + 2)
         IN  IF p > i + 2 /\ p + 1 <= Len(c) /\ c[p + 1] = COMMA
             THEN p + 1 ELSE 0
    ELSE 0

\* mutant of Sub2From: the pattern without its trailing ",", so that .fsPath is
\* appended to every path.join(URI.parse(...) whatever follows it
RECURSIVE Sub2FromNoComma(_, _)
Sub2FromNoComma(c, i) ==
    IF i > Len(c) THEN <<>>
    ELSE LET p == IF i + 1 <= Len(c) /\ c[i] = PATH_JOIN
                      /\ c[i + 1] \in {URI_PARSE, URI_FILE}
                   THEN FirstRParen(c, i + 2) ELSE 0
         IN  IF p > i + 2
             THEN SubSeq(c, i, p) \o <<FSPATH>> \o Sub2FromNoComma(c, p + 1)
             ELSE <<c[i]>> \o Sub2FromNoComma(c, i + 1)

RECURSIVE Sub2From(_, _)
Sub2From(c, i) ==
    IF i > Len(c) THEN <<>>
    ELSE LET e == Match2End(c, i)
         IN  IF e > 0
             THEN <<PATH_JOIN>> \o SubSeq(c, i + 1, e - 1) \o <<FSPATH, COMMA>>
                  \o Sub2From(c, e + 1)
             ELSE <<c[i]>> \o Sub2From(c, i + 1)

Rule2(c) == Sub2From(c, 1)

\* ------------------------------------------------------------------ rule 3
\* URI\.joinPath\([^)]+\) tried at position i: the index of the ")" that ends
\* the match, 0 when the pattern does not match at i.
\* mutant of Match3End: [^)]* in place of [^)]+
Match3EndEmptyArgs(c, i) ==
    IF c[i] = URI_JOIN
    THEN LET p == FirstRParen(c, i + 1)
         IN  IF p >= i + 1 THEN p ELSE 0
    ELSE 0

Match3End(c, i) ==
    IF c[i] = URI_JOIN
    THEN LET p == FirstRParen(c, i + 1)
         IN  IF p > i + 1 THEN p ELSE 0
    ELSE 0

\* mutant of Sub3From: re.sub(..., count=1), only the first match is replaced
RECURSIVE Sub3FromFirstOnly(_, _)
Sub3FromFirstOnly(c, i) ==
    IF i > Len(c) THEN <<>>
    ELSE LET e == Match3End(c, i)
         IN  IF e > 0
             THEN PLACEHOLDER \o SubSeq(c, e + 1, Len(c))
             ELSE <<c[i]>> \o Sub3FromFirstOnly(c, i + 1)

RECURSIVE Sub3From(_, _)
Sub3From(c, i) ==
    IF i > Len(c) THEN <<>>
    ELSE LET e == Match3End(c, i)
         IN  IF e > 0
             THEN PLACEHOLDER \o Sub3From(c, e + 1)
             ELSE <<c[i]>> \o Sub3From(c, i + 1)

Rule3(c) == Sub3From(c, 1)

\* ---------------------------------------------------------------- fix_file
\* the value of `content` at the comparison with `original`
fix_file(c) == Rule3(Rule2(Rule1(c)))


\* ------------------------------------------------------------ input texts
Lexemes == {URI_IMPORT, PATH_IMPORT, SEMI, NL, PATH_JOIN, URI_PARSE, URI_FILE,
            URI_JOIN, RPAREN, COMMA, FSPATH, FIXME, ANY_CHAR}

Tuples(S, n) == UNION {[1..k -> S] : k \in 0..n}

RECURSIVE Flatten(_)
Flatten(ss) == IF ss = <<>> THEN <<>> ELSE Head(ss) \o Flatten(Tail(ss))

\* pieces the rules react to; texts are built from up to MaxFrag of them
JoinPieces   == {<<PATH_JOIN, URI_PARSE>>, <<PATH_JOIN, URI_FILE>>, <<PATH_JOIN>>,
                 <<RPAREN, COMMA>>, <<RPAREN>>, <<COMMA>>, <<FSPATH>>, <<ANY_CHAR>>}
CallPieces   == {<<URI_JOIN>>, <<URI_JOIN, ANY_CHAR>>, <<URI_JOIN, RPAREN>>,
                 <<RPAREN>>, <<RPAREN, COMMA>>, <<PATH_JOIN>>, <<ANY_CHAR>>,
                 PLACEHOLDER}
ImportPieces == {<<URI_IMPORT, SEMI>>, <<URI_IMPORT>>, <<PATH_IMPORT, SEMI>>,
                 <<NL>>, <<URI_JOIN>>, <<RPAREN>>, <<ANY_CHAR>>}

\* foo(path.join(URI.file(p), q));
E2E_CALL == <<ANY_CHAR, ANY_CHAR, ANY_CHAR, ANY_CHAR, PATH_JOIN, URI_FILE,
              ANY_CHAR, RPAREN, COMMA, ANY_CHAR, ANY_CHAR, RPAREN, RPAREN, SEMI>>
\* import { URI } from 'vscode-uri';\nfoo(path.join(URI.file(p), q));
E2E_FILE == <<URI_IMPORT, SEMI, NL>> \o E2E_CALL
\* path.join(URI.parse(x),
PARSE_CALL == <<PATH_JOIN, URI_PARSE, ANY_CHAR, RPAREN, COMMA>>

Texts ==
    Tuples(Lexemes, MaxLenAll)
    \cup {Flatten(ss) : ss \in Tuples(JoinPieces, MaxFrag)}
    \cup {Flatten(ss) : ss \in Tuples(CallPieces, MaxFrag)}
    \cup {Flatten(ss) : ss \in Tuples(ImportPieces, MaxFrag)}
    \cup {E2E_CALL, E2E_FILE, PARSE_CALL}

\* ------------------------------------------- specification SpecRules
RunIdle ==
    /\ isfile = <<>> /\ disk = <<>> /\ disk0 = <<>> /\ linesep = <<NL>>
    /\ pc = "idle" /\ idx = 0 /\ content = <<>> /\ original = <<>>
    /\ console = <<>> /\ opened = <<>>

InitRules ==
    /\ input \in Texts
    /\ output = input
    /\ applied = "none"
    /\ reported = FALSE
    /\ RunIdle

ApplyRule1 ==
    /\ applied = "none"
    /\ output' = Rule1(input)
    /\ applied' = "rule1"
    /\ UNCHANGED <<input, reported, runVars>>

ApplyRule2 ==
    /\ applied = "none"
    /\ output' = Rule2(input)
    /\ applied' = "rule2"
    /\ UNCHANGED <<input, reported, runVars>>

ApplyRule3 ==
    /\ applied = "none"
    /\ output' = Rule3(input)
    /\ applied' = "rule3"
    /\ UNCHANGED <<input, reported, runVars>>

\* fix_file on a file holding `input`: the text left in the file and whether
\* the file was written and reported
ApplyFixFile ==
    /\ applied = "none"
    /\ output' = fix_file(input)
    /\ reported' = (fix_file(input) # input)
    /\ applied' = "fix"
    /\ UNCHANGED <<input, runVars>>

NextRules == ApplyRule1 \/ ApplyRule2 \/ ApplyRule3 \/ ApplyFixFile

SpecRules == InitRules /\ [][NextRules]_vars


\* ------------------------------------------------------------ text I/O
\* f.read() of a file opened with open(filepath, 'r'): universal newlines,
\* "\r\n" and "\r" are read as "\n"
RECURSIVE ReadTextFrom(_, _)
ReadTextFrom(b, i) ==
    IF i > Len(b) THEN <<>>
    ELSE IF b[i] = CR
         THEN <<NL>> \o ReadTextFrom(b, IF i + 1 <= Len(b) /\ b[i + 1] = NL
                                        THEN i + 2 ELSE i + 1)
         ELSE <<b[i]>> \o ReadTextFrom(b, i + 1)

ReadText(b) == ReadTextFrom(b, 1)

\* f.write(content) on a file opened with open(filepath, 'w'): "\n" is stored
\* as os.linesep
WriteText(c, sep) == Flatten([k \in 1..Len(c) |-> IF c[k] = NL THEN sep ELSE <<c[k]>>])

\* --------------------------------------------------- specification Spec
\* files the script may find under server/src
DiskTexts ==
    { <<ANY_CHAR, CR, NL>>,
      <<URI_IMPORT, NL>>,
      <<URI_IMPORT, SEMI, CR, NL, ANY_CHAR>>,
      <<URI_IMPORT, SEMI, NL, PATH_IMPORT, SEMI, NL>>,
      <<URI_JOIN, ANY_CHAR, RPAREN>>,
      E2E_FILE }

RulesIdle ==
    input = <<>> /\ output = <<>> /\ applied = "idle" /\ reported = FALSE

\* glob.glob(pattern, recursive=True) has returned its list; path i is the
\* i-th result
Init ==
    /\ \E n \in 0..MaxFiles :
          /\ isfile \in [1..n -> BOOLEAN]
          /\ disk \in [1..n -> DiskTexts]
          /\ \A i \in 1..n : ~isfile[i] => disk[i] = <<>>
    /\ disk0 = disk
    /\ linesep \in {<<NL>>, <<CR, NL>>}
    /\ pc = "loop"
    /\ idx = 0
    /\ content = <<>>
    /\ original = <<>>
    /\ console = <<>>
    /\ opened = <<>>
    /\ RulesIdle

\* for filepath in glob.glob(...): if os.path.isfile(filepath): fix_file(filepath)
NextFile ==
    /\ pc = "loop"
    /\ idx < Len(disk)
    /\ idx' = idx + 1
    /\ pc' = IF isfile[idx + 1] THEN "read" ELSE "loop"
    /\ UNCHANGED <<isfile, disk, disk0, linesep, content, original, console,
                   opened, ruleVars>>

\* with open(filepath, 'r') as f: content = f.read(); original = content
ReadFile ==
    /\ pc = "read"
    /\ opened' = Append(opened, <<"r", idx, TRUE>>)
    /\ content' = ReadText(disk[idx])
    /\ original' = ReadText(disk[idx])
    /\ pc' = "rules"
    /\ UNCHANGED <<isfile, disk, disk0, linesep, idx, console, ruleVars>>

\* open() or read() raises: nothing catches it, the script ends
ReadFileFails ==
    /\ pc = "read"
    /\ opened' = Append(opened, <<"r", idx, FALSE>>)
    /\ pc' = "crashed"
    /\ UNCHANGED <<isfile, disk, disk0, linesep, idx, content, original,
                   console, ruleVars>>

\* mutant of ApplyRules: the file is written whether or not content changed
ApplyRulesAlwaysWrite ==
    /\ pc = "rules"
    /\ content' = fix_file(content)
    /\ pc' = "write"
    /\ UNCHANGED <<isfile, disk, disk0, linesep, idx, original, console,
                   opened, ruleVars>>

\* the three rules, then `if content != original`
ApplyRules ==
    /\ pc = "rules"
    /\ content' = fix_file(content)
    /\ pc' = IF fix_file(content) # original THEN "write" ELSE "loop"
    /\ UNCHANGED <<isfile, disk, disk0, linesep, idx, original, console,
                   opened, ruleVars>>

\* with open(filepath, 'w') as f: f.write(content)
WriteFile ==
    /\ pc = "write"
    /\ opened' = Append(opened, <<"w", idx, TRUE>>)
    /\ disk' = [disk EXCEPT ![idx] = WriteText(content, linesep)]
    /\ pc' = "print"
    /\ UNCHANGED <<isfile, disk0, linesep, idx, content, original, console,
                   ruleVars>>

\* open(filepath, 'w') raises: the file is as it was, the script ends
WriteFileOpenFails ==
    /\ pc = "write"
    /\ opened' = Append(opened, <<"w", idx, FALSE>>)
    /\ pc' = "crashed"
    /\ UNCHANGED <<isfile, disk, disk0, linesep, idx, content, original,
                   console, ruleVars>>

\* mutant of WriteFileFails: the error is caught and the loop goes on
WriteFileFailsCaught ==
    /\ pc = "write"
    /\ opened' = Append(opened, <<"w", idx, FALSE>>)
    /\ \E k \in 0..(Len(WriteText(content, linesep)) - 1) :
          disk' = [disk EXCEPT ![idx] = SubSeq(WriteText(content, linesep), 1, k)]
    /\ pc' = "loop"
    /\ UNCHANGED <<isfile, disk0, linesep, idx, content, original, console,
                   ruleVars>>

\* open(filepath, 'w') has truncated the file, then write() or the flush on
\* close raises: part of the new text is stored, the script ends
WriteFileFails ==
    /\ pc = "write"
    /\ opened' = Append(opened, <<"w", idx, FALSE>>)
    /\ \E k \in 0..(Len(WriteText(content, linesep)) - 1) :
          disk' = [disk EXCEPT ![idx] = SubSeq(WriteText(content, linesep), 1, k)]
    /\ pc' = "crashed"
    /\ UNCHANGED <<isfile, disk0, linesep, idx, content, original, console,
                   ruleVars>>

\* print(f"Fixed {filepath}")
PrintFixed ==
    /\ pc = "print"
    /\ console' = Append(console, <<"Fixed", idx>>)
    /\ pc' = "loop"
    /\ UNCHANGED <<isfile, disk, disk0, linesep, idx, content, original,
                   opened, ruleVars>>

\* mutant of PrintDone: the loop ends one glob result early
PrintDoneEarly ==
    /\ pc = "loop"
    /\ idx + 1 >= Len(disk)
    /\ console' = Append(console, <<"Done!">>)
    /\ pc' = "exit"
    /\ UNCHANGED <<isfile, disk, disk0, linesep, idx, content, original,
                   opened, ruleVars>>

\* the loop is over: print("Done!")
PrintDone ==
    /\ pc = "loop"
    /\ idx = Len(disk)
    /\ console' = Append(console, <<"Done!">>)
    /\ pc' = "exit"
    /\ UNCHANGED <<isfile, disk, disk0, linesep, idx, content, original,
                   opened, ruleVars>>

Next ==
    \/ NextFile
    \/ ReadFile
    \/ ReadFileFails
    \/ ApplyRules
    \/ WriteFile
    \/ WriteFileOpenFails
    \/ WriteFileFails
    \/ PrintFixed
    \/ PrintDone

Spec == Init /\ [][Next]_vars

\* ------------------------------------------------ what the claims speak of
\* occurrences of the rule patterns in a text, stated position by position
\* an occurrence of path.join(URI.parse(x), or path.join(URI.file(x), with x
\* non-empty and free of ")": it starts at i and its inner call closes at p
IsJoinCall(c, i, p) ==
    /\ i >= 1 /\ p + 1 <= Len(c) /\ p > i + 2
    /\ c[i] = PATH_JOIN /\ c[i + 1] \in {URI_PARSE, URI_FILE}
    /\ c[p] = RPAREN /\ c[p + 1] = COMMA
    /\ \A k \in (i + 2)..(p - 1) : c[k] # RPAREN

\* an occurrence of URI.joinPath(args) with args non-empty and free of ")"
IsJoinPathCall(c, i, p) ==
    /\ i >= 1 /\ p <= Len(c) /\ p > i + 1
    /\ c[i] = URI_JOIN /\ c[p] = RPAREN
    /\ \A k \in (i + 1)..(p - 1) : c[k] # RPAREN

HasJoinCall(c) ==
    \E i \in 1..Len(c) : c[i] = PATH_JOIN /\ \E p \in i..Len(c) : IsJoinCall(c, i, p)
HasJoinPathCall(c) ==
    \E i \in 1..Len(c) : c[i] = URI_JOIN /\ \E p \in i..Len(c) : IsJoinPathCall(c, i, p)

Count(c, lexeme) == Cardinality({i \in 1..Len(c) : c[i] = lexeme})

\* c with .fsPath put after the closing parenthesis of every occurrence
WithFsPath(c) ==
    Flatten([k \in 1..Len(c) |->
                IF \E i \in 1..Len(c) : IsJoinCall(c, i, k)
                THEN <<c[k], FSPATH>> ELSE <<c[k]>>])

\* c with every URI.joinPath(args) call taken out and the placeholder put where
\* the call closed
WithPlaceholders(c) ==
    Flatten([k \in 1..Len(c) |->
                IF \E i \in 1..Len(c) : IsJoinPathCall(c, i, k) THEN PLACEHOLDER
                ELSE IF \E i, p \in 1..Len(c) :
                            IsJoinPathCall(c, i, p) /\ i <= k /\ k < p
                     THEN <<>>
                     ELSE <<c[k]>>])

E2E_CALL_FIXED ==
    <<ANY_CHAR, ANY_CHAR, ANY_CHAR, ANY_CHAR, PATH_JOIN, URI_FILE, ANY_CHAR,
      RPAREN, FSPATH, COMMA, ANY_CHAR, ANY_CHAR, RPAREN, RPAREN, SEMI>>

\* the run: what was on disk, read and printed
Events == {opened[k] : k \in 1..Len(opened)}
Lines  == {console[k] : k \in 1..Len(console)}
Failed == \E k \in 1..Len(opened) : ~opened[k][3]

\* the text fix_file read from path i, and whether the rules change it
TextRead(i) == ReadText(disk0[i])
Changed(i)  == fix_file(TextRead(i)) # TextRead(i)
NoTrigger(c) == ~Rule1Fires(c) /\ ~HasJoinCall(c) /\ ~HasJoinPathCall(c)

\* the call fix_file(path i) has returned
Returned(i) == isfile[i] /\ (i < idx \/ (i = idx /\ pc \in {"loop", "exit"}))

\* what a completed fix_file leaves at path i
Persisted(i) ==
    IF isfile[i] /\ Changed(i) THEN WriteText(fix_file(TextRead(i)), linesep)
    ELSE disk0[i]

ExpectedConsole ==
    Flatten([i \in 1..Len(disk0) |->
                IF isfile[i] /\ Changed(i) THEN << <<"Fixed", i>> >> ELSE <<>>])
    \o << <<"Done!">> >>

\* ------------------------------------------------------------------ claims
\* C1: a file handed to fix_file is opened for writing, and reported by a
\* "Fixed" line, if and only if the text after the three rules differs from
\* the text read; a file that matches none of the three rule triggers is only
\* read, never written.
C1_WrittenIffChanged ==
    \A i \in 1..Len(disk) :
        LET changed   == Changed(i)
            writeOpen == \E ok \in BOOLEAN : <<"w", i, ok>> \in Events
            fixedLine == <<"Fixed", i>> \in Lines
        IN  /\ writeOpen => (isfile[i] /\ changed)
            /\ fixedLine => (isfile[i] /\ changed)
            /\ Returned(i) =>
                  /\ <<"w", i, TRUE>> \in Events <=> changed
                  /\ fixedLine <=> changed
            /\ (isfile[i] /\ NoTrigger(TextRead(i))) =>
                  (~writeOpen /\ disk[i] = disk0[i])

C1_Witness ==
    /\ pc = "exit"
    /\ \E i, j \in 1..Len(disk) :
          /\ isfile[i] /\ Changed(i) /\ <<"w", i, TRUE>> \in Events
          /\ isfile[j] /\ NoTrigger(TextRead(j)) /\ TextRead(j) # <<>>
          /\ <<"r", j, TRUE>> \in Events

\* C7: when reading or writing a file fails the run ends at that file, with no
\* retry: the files before it keep their persisted result, the files after it
\* are neither read nor written, and "Done!" is not printed.
C7_FailureEndsRun ==
    Failed =>
        /\ pc = "crashed"
        /\ ~ENABLED Next
        /\ opened[Len(opened)] \in {<<"r", idx, FALSE>>, <<"w", idx, FALSE>>}
        /\ \A k \in 1..(Len(opened) - 1) : opened[k][3]
        /\ \A k, l \in 1..Len(opened) :
              (opened[k][1] = opened[l][1] /\ opened[k][2] = opened[l][2]) => k = l
        /\ <<"Done!">> \notin Lines
        /\ \A i \in 1..(idx - 1) : disk[i] = Persisted(i)
        /\ \A i \in (idx + 1)..Len(disk) :
              /\ disk[i] = disk0[i]
              /\ \A e \in Events : e[2] # i

C7_Witness ==
    /\ Failed
    /\ 1 < idx /\ idx < Len(disk)
    /\ \E i \in 1..(idx - 1) : disk[i] # disk0[i]
    /\ isfile[idx + 1] /\ Changed(idx + 1)
    /\ disk[idx] # disk0[idx]

C2_NoUriImportUnchanged ==
    (applied = "fix" /\ ~Contains(input, <<URI_IMPORT>>))
        => (output = input /\ ~reported)

\* C2 amended: a file without the URI import literal and without any match of
\* the rule 2 and rule 3 patterns is left unchanged by fix_file and is not
\* reported.
C2_NoTriggerUnchanged ==
    (applied = "fix" /\ ~Contains(input, <<URI_IMPORT>>)
        /\ ~HasJoinCall(input) /\ ~HasJoinPathCall(input))
        => (output = input /\ ~reported)

C2_Witness ==
    /\ applied = "fix" /\ ~Contains(input, <<URI_IMPORT>>)
    /\ ~HasJoinCall(input) /\ ~HasJoinPathCall(input)
    /\ Contains(input, <<PATH_JOIN>>) /\ Contains(input, <<RPAREN, COMMA>>)

\* C3: a file with the URI import literal and without the path import literal
\* holds, after fix_file, the path import literal exactly once, on the line
\* after the URI import.
C3_PathImportOnceAfterUri ==
    (applied = "fix" /\ Contains(input, <<URI_IMPORT>>)
        /\ ~Contains(input, <<PATH_IMPORT>>))
        => /\ Count(output, PATH_IMPORT) = 1
           /\ \/ Contains(output, <<URI_IMPORT, SEMI, NL, PATH_IMPORT>>)
              \/ Contains(output, <<URI_IMPORT, NL, PATH_IMPORT>>)

\* C4: when rule 2 finds no match in the first run, a second run of fix_file
\* on the result changes nothing: fix(fix(c)) = fix(c).
C4_SecondRunNoOp ==
    (applied = "fix" /\ ~HasJoinCall(input) /\ ~HasJoinCall(Rule1(input)))
        => fix_file(output) = output

C6_Rule3Placeholder ==
    applied = "rule3" => output = WithPlaceholders(input)

C6_Witness ==
    /\ applied = "rule3"
    /\ \E i, p \in 1..Len(input) :
          IsJoinPathCall(input, i, p) /\ i > 1 /\ p < Len(input) /\ p > i + 2
    /\ output # input

\* C9: rule 2 applied to its own output changes nothing:
\* rule2(rule2(c)) = rule2(c).
C9_Rule2Idempotent ==
    applied = "rule2" => Rule2(output) = output

C9_Witness ==
    applied = "rule2" /\ HasJoinCall(input) /\ output # input

\* C10: the text fix_file (and rule 3 alone) produces holds no
\* URI.joinPath( + one or more non-")" + ")".
C10_NoJoinPathLeft ==
    applied \in {"rule3", "fix"} => ~HasJoinPathCall(output)

C10_Witness ==
    /\ applied = "fix"
    /\ HasJoinPathCall(input)
    /\ Contains(output, <<URI_JOIN, RPAREN>> \o PLACEHOLDER)

====
